---- MODULE Spec2Model ----
(***************************************************************************)
(* Model of the LCN websocket API (homeassistant/components/lcn/           *)
(* websocket_api.py): the device/entity lists of one config entry, the     *)
(* external device registry, the scan sweep with its per-address reconcile *)
(* tasks, and the delete_device / delete_entity cascade.                   *)
(*                                                                         *)
(* Scheduling is asyncio's: one event loop, a coroutine runs without       *)
(* interruption from one await that really suspends to the next.  Every    *)
(* action below is one such run.                                           *)
(***************************************************************************)
EXTENDS Integers, Sequences, FiniteSets, TLC

\* ------------------------------------------------------------------ bounds
\* Module addresses are (0, 1..MaxModuleId, FALSE), group addresses are
\* (0, 1..MaxGroupId, TRUE).
MaxModuleId == 2
MaxGroupId == 1
\* Entity configurations that may exist in the config entry.
MaxEntities == 2
\* Names a module may answer to request_name() (0 is the empty name of a
\* record that was never scanned).
MaxName == 1
\* scan_devices requests that may be in flight at the same time.
MaxSweeps == 2
\* Creations of a device record for one address that the history keeps.
MaxMints == 2
\* Ramp values are 0..MaxRamp, the light's output port is one of 0..MaxOutput.
MaxRamp == 1
MaxOutput == 1

\* --------------------------------------------------------------- constants
HOST == "pchk"

Segments == {0}
ModuleAddrs == {<<s, i, FALSE>> : s \in Segments, i \in 1..MaxModuleId}
GroupAddrs == {<<s, i, TRUE>> : s \in Segments, i \in 1..MaxGroupId}
Addrs == ModuleAddrs \cup GroupAddrs
Names == 1..MaxName
Sweeps == 1..MaxSweeps

\* device_connection.get_seg_id(), get_id(), is_group()
get_seg_id(a) == a[1]
get_id(a) == a[2]
is_group(a) == a[3]

\* What the bus client holds for an address once serial_known resolved.
hardware_serial(a) == 1000 + 10 * get_id(a)
software_serial(a) == 2000 + 10 * get_id(a)
hw_type(a) == 3000 + 10 * get_id(a)

\* helpers.generate_unique_id(host_name, address): a deterministic, injective
\* function of (host_name, segment_id, address_id, is_group).
generate_unique_id(host_name, a) == <<host_name, a[1], a[2], a[3]>>

DeviceIds == {generate_unique_id(HOST, a) : a \in Addrs}

\* The entity configurations: entity k has a unique_id of its own, a platform
\* and a resource (both ranked by integers, as their strings are compared by
\* the sort only).
EntityId(k) == <<HOST, "entity", k>>
EntityIds == {EntityId(k) : k \in 1..MaxEntities}
PlatformOf(k) == 1 + (k % 2)
ResourceOf(k) == k
EntityConfig(k, dev_uid) ==
    [unique_id |-> EntityId(k), unique_device_id |-> dev_uid,
     platform |-> PlatformOf(k), resource |-> ResourceOf(k)]

\* A device record the config entry holds before any scan of this session:
\* its name and serials are not those the bus answers now.
StoredDevice(a) ==
    [unique_id |-> generate_unique_id(HOST, a),
     segment_id |-> a[1], address_id |-> a[2], is_group |-> a[3],
     name |-> 0, hardware_serial |-> 0, software_serial |-> 0,
     hardware_type |-> 0]

\* ------------------------------------------------------------ list helpers
Range(s) == {s[i] : i \in 1..Len(s)}

\* list.remove(x): drops the first element equal to x.
RECURSIVE RemoveFirst(_, _)
RemoveFirst(s, x) ==
    IF s = <<>> THEN <<>>
    ELSE IF Head(s) = x THEN Tail(s)
    ELSE <<Head(s)>> \o RemoveFirst(Tail(s), x)

\* Lexicographic order of two integer tuples of the same length.
RECURSIVE LexLess(_, _)
LexLess(k1, k2) ==
    IF k1 = <<>> THEN FALSE
    ELSE IF Head(k1) # Head(k2) THEN Head(k1) < Head(k2)
    ELSE LexLess(Tail(k1), Tail(k2))

\* itemgetter(ATTR_IS_GROUP, ATTR_SEGMENT_ID, ATTR_ADDRESS_ID); False < True.
DeviceSortKey(d) == <<IF d.is_group THEN 1 ELSE 0, d.segment_id, d.address_id>>
\* itemgetter(ATTR_PLATFORM, ATTR_RESOURCE)
EntitySortKey(e) == <<e.platform, e.resource>>

\* The key sort_lcn_config_entry sorts a record by: a device record by
\* DeviceSortKey, an entity record by EntitySortKey.
SortKey(x) ==
    IF "platform" \in DOMAIN x THEN EntitySortKey(x) ELSE DeviceSortKey(x)

\* list.sort(key=...) is stable: an element goes after the elements whose key
\* is not greater.
RECURSIVE InsertByKey(_, _)
InsertByKey(sorted, x) ==
    IF sorted = <<>> THEN <<x>>
    ELSE IF LexLess(SortKey(x), SortKey(Head(sorted)))
         THEN <<x>> \o sorted
         ELSE <<Head(sorted)>> \o InsertByKey(Tail(sorted), x)

RECURSIVE SortByKey(_)
SortByKey(s) ==
    IF s = <<>> THEN <<>>
    ELSE InsertByKey(SortByKey(SubSeq(s, 1, Len(s) - 1)), s[Len(s)])

IsSorted(s) ==
    \A i \in 1..Len(s) - 1 : ~LexLess(SortKey(s[i + 1]), SortKey(s[i]))

\* A sequence that holds each element of a finite set once.
RECURSIVE SetToSeq(_)
SetToSeq(S) ==
    IF S = {} THEN <<>>
    ELSE LET x == CHOOSE y \in S : TRUE IN <<x>> \o SetToSeq(S \ {x})

\* ------------------------------------------------------------------- state
VARIABLES
    devices,    \* config_entry.data[CONF_DEVICES]: a list of device records
    entities,   \* config_entry.data[CONF_ENTITIES]: a list of entity records
    registry,   \* the device registry: the identifiers (DOMAIN, unique_id) it holds
    pc,         \* pc[s]: where the handler of scan request s stands
    tasks,      \* tasks[s][a]: the reconcile task of sweep s for address a
    lock,       \* lock[s]: the asyncio.Lock of sweep s is held
    dirty,      \* async_update_entry was called: the entry is scheduled for save
    resp,       \* the last message sent to the websocket client
    history,    \* history variable: who wrote the lists last, the unique_ids
                \* given to each address (recorded when history.on)
    config_entries, \* hass.config_entries.async_entries(DOMAIN), as the read
                \* handlers and the setup see it: one record per entry
    hass_data,  \* hass.data[DOMAIN]: the entry_ids that have connection data
    LcnOutputLight, \* the fields of one LcnOutputLight
    LcnRelayLight,  \* the fields of one LcnRelayLight
    last_call   \* the latest call of a light's method: what it sent to the
                \* device connection and the states it wrote

storeVars == <<devices, entities, registry, pc, tasks, lock, dirty>>
entryVars == <<config_entries, hass_data>>
lightVars == <<LcnOutputLight, LcnRelayLight, last_call>>
vars == <<storeVars, resp, history, entryVars, lightVars>>

NoDevice == <<>>

DeviceUids(devs) == {devs[i].unique_id : i \in 1..Len(devs)}
EntityUids(ents) == {ents[i].unique_id : i \in 1..Len(ents)}

\* The answer to a request of the given type: "ok" (send_result) or "error"
\* (the handler ended with an exception, which the websocket layer reports
\* to the client).
Reply(type, result) == [type |-> type, result |-> result]

\* The history variable where nothing is recorded, and where recording starts.
\* history.writer is the operation whose write to the lists was the last:
\* <<"none">>, <<"delete", r>> for a delete request that removed a record,
\* r being the record the request named, or <<"scan", s>> for a task of
\* sweep s;
\* history.minted[a] are the unique_ids of the records created for address a;
\* history.unloaded are the entry_ids of the entries that were unloaded;
\* history.ramped_off says that the output light was turned off with a ramp
\* and since then neither turned on nor reported at brightness 0.
Untracked ==
    [on |-> FALSE, writer |-> <<"none">>, minted |-> [a \in Addrs |-> <<>>],
     unloaded |-> {}, ramped_off |-> FALSE]
Tracked == [Untracked EXCEPT !.on = TRUE]

\* LcnOutputLight.__init__ and LcnRelayLight.__init__: the fields of a light
\* as constructed; output is the value of its port, transition the ramp
\* value of the configured transition.
OutputLightInit(output, transition) ==
    [output |-> output, transition |-> transition,
     brightness |-> 255, is_on |-> FALSE, is_dimming_to_zero |-> FALSE]
RelayLightInit(output) == [output |-> output, is_on |-> FALSE]
NoCall == [method |-> "none", sent |-> <<>>, written |-> <<>>]

\* No light has been called.
LightsIdle ==
    /\ LcnOutputLight = OutputLightInit(0, 0)
    /\ LcnRelayLight = RelayLightInit(0)
    /\ last_call = NoCall

\* The entries' setup and the read handlers are not looked at.
EntriesIdle ==
    /\ config_entries = <<>>
    /\ hass_data = {}

\* The config entry as loaded: any devices, sorted; any entities of these
\* devices, sorted; a device registry that holds any of their identifiers.
\* No request is in flight.
StoreInit ==
    \E present \in SUBSET Addrs :
      \E owner \in [1..MaxEntities ->
                      {generate_unique_id(HOST, a) : a \in present} \cup {NoDevice}] :
        LET ents == {EntityConfig(k, owner[k]) :
                        k \in {j \in 1..MaxEntities : owner[j] # NoDevice}}
        IN  /\ devices = SortByKey(SetToSeq({StoredDevice(a) : a \in present}))
            /\ entities = SortByKey(SetToSeq(ents))
            /\ registry \in SUBSET ({generate_unique_id(HOST, a) : a \in present}
                                       \cup {e.unique_id : e \in ents})
            /\ pc = [s \in Sweeps |-> "idle"]
            /\ tasks = [s \in Sweeps |-> [a \in Addrs |-> "none"]]
            /\ lock = [s \in Sweeps |-> FALSE]
            /\ dirty = FALSE
            /\ resp = [type |-> "none", result |-> "none"]

Init ==
    /\ StoreInit
    /\ history = Untracked
    /\ EntriesIdle
    /\ LightsIdle

\* The same, for a config entry without entities whose devices are all
\* registered.
InitDevicesOnly ==
    /\ Init
    /\ entities = <<>>
    /\ registry = DeviceUids(devices)

\* The same again, with the history recorded.
InitTracked ==
    /\ StoreInit
    /\ entities = <<>>
    /\ registry = DeviceUids(devices)
    /\ history = Tracked
    /\ EntriesIdle
    /\ LightsIdle

\* What an action leaves in the history variable: h where the history is
\* recorded, the variable as it is where it is not.
Recorded(h) == history' = IF history.on THEN h ELSE history

\* ----------------------------------------------------------------- helpers
\* The index of the first record of a list with the given unique_id, 0 if none.
RECURSIVE IndexOfUid(_, _, _)
IndexOfUid(list, unique_id, i) ==
    IF i > Len(list) THEN 0
    ELSE IF list[i].unique_id = unique_id THEN i
    ELSE IndexOfUid(list, unique_id, i + 1)

\* helpers.get_device_config / get_entity_config: the record with that
\* unique_id; the caller fails with NotFoundError when there is none.
Found(list, unique_id) == IndexOfUid(list, unique_id, 1) # 0
get_device_config(unique_id, devs) == devs[IndexOfUid(devs, unique_id, 1)]
get_entity_config(unique_id, ents) == ents[IndexOfUid(ents, unique_id, 1)]

\* sort_lcn_config_entry, on the two lists.
sort_lcn_config_entry(devs, ents) ==
    [devices |-> SortByKey(devs), entities |-> SortByKey(ents)]

\* ---------------------------------------------------------------- deletion
\* delete_entity that removes the siblings of the entity with it.
delete_entity_with_siblings(ents, reg, unique_id) ==
    LET entity_config == get_entity_config(unique_id, ents)
    IN  IF unique_id \in reg
        THEN [entities |-> SelectSeq(ents, LAMBDA e :
                    e.unique_device_id # entity_config.unique_device_id),
              registry |-> reg \ {unique_id}]
        ELSE [entities |-> ents, registry |-> reg]

\* delete_entity, for an entity the list holds: the registry entry and the
\* list's record go together, and only when the registry has the entry.
delete_entity(ents, reg, unique_id) ==
    LET entity_config == get_entity_config(unique_id, ents)
    IN  IF unique_id \in reg
        THEN [entities |-> RemoveFirst(ents, entity_config),
              registry |-> reg \ {unique_id}]
        ELSE [entities |-> ents, registry |-> reg]

\* The for loop of delete_device over config_entry.data[CONF_ENTITIES]: a
\* Python list iterator holds an index, which moves on by one after every
\* element, also when delete_entity has just shortened the list.
RECURSIVE delete_children(_, _, _, _)
delete_children(ents, reg, i, unique_device_id) ==
    IF i > Len(ents) THEN [entities |-> ents, registry |-> reg]
    ELSE IF ents[i].unique_device_id = unique_device_id
         THEN LET r == delete_entity(ents, reg, ents[i].unique_id)
              IN  delete_children(r.entities, r.registry, i + 1, unique_device_id)
         ELSE delete_children(ents, reg, i + 1, unique_device_id)

\* delete_device, for a device the list holds.
delete_device(devs, ents, reg, unique_id) ==
    LET device_config == get_device_config(unique_id, devs)
        r == delete_children(ents, reg, 1, device_config.unique_id)
    IN  IF unique_id \in r.registry
        THEN [devices |-> RemoveFirst(devs, device_config),
              entities |-> r.entities,
              registry |-> r.registry \ {unique_id}]
        ELSE [devices |-> devs, entities |-> r.entities, registry |-> r.registry]

\* The stores delete_device goes through: the store after every call of
\* delete_entity in the for loop, in the order of the calls.
RECURSIVE delete_children_steps(_, _, _, _, _)
delete_children_steps(devs, ents, reg, i, unique_device_id) ==
    IF i > Len(ents) THEN <<>>
    ELSE IF ents[i].unique_device_id = unique_device_id
         THEN LET r == delete_entity(ents, reg, ents[i].unique_id)
              IN  <<[devices |-> devs, entities |-> r.entities,
                     registry |-> r.registry]>>
                  \o delete_children_steps(devs, r.entities, r.registry, i + 1,
                                           unique_device_id)
         ELSE delete_children_steps(devs, ents, reg, i + 1, unique_device_id)

\* The store delete_device starts from, the stores of the loop, and the
\* store it returns with.
delete_device_steps(devs, ents, reg, unique_id) ==
    <<[devices |-> devs, entities |-> ents, registry |-> reg]>>
    \o delete_children_steps(devs, ents, reg, 1,
                             get_device_config(unique_id, devs).unique_id)
    \o <<delete_device(devs, ents, reg, unique_id)>>

\* websocket_delete_device: delete, sort, schedule the save, answer.  A
\* NotFoundError of the lookup leaves the handler before any write.
websocket_delete_device(unique_id) ==
    /\ IF ~Found(devices, unique_id)
       THEN /\ resp' = Reply("lcn/device/delete", "error")
            /\ UNCHANGED <<devices, entities, registry, dirty, history>>
       ELSE LET r == delete_device(devices, entities, registry, unique_id)
                sorted == sort_lcn_config_entry(r.devices, r.entities)
            IN  /\ devices' = sorted.devices
                /\ entities' = sorted.entities
                /\ registry' = r.registry
                /\ dirty' = TRUE
                /\ resp' = Reply("lcn/device/delete", "ok")
                /\ Recorded(IF devices' = devices /\ entities' = entities
                            THEN history
                            ELSE [history EXCEPT !.writer =
                                    <<"delete", get_device_config(unique_id, devices)>>])
    /\ UNCHANGED <<pc, tasks, lock, entryVars, lightVars>>

\* websocket_delete_entity: the same for one entity.
websocket_delete_entity(unique_id) ==
    /\ IF ~Found(entities, unique_id)
       THEN /\ resp' = Reply("lcn/entity/delete", "error")
            /\ UNCHANGED <<devices, entities, registry, dirty, history>>
       ELSE LET r == delete_entity(entities, registry, unique_id)
                sorted == sort_lcn_config_entry(devices, r.entities)
            IN  /\ devices' = sorted.devices
                /\ entities' = sorted.entities
                /\ registry' = r.registry
                /\ dirty' = TRUE
                /\ resp' = Reply("lcn/entity/delete", "ok")
                /\ Recorded(IF entities' = entities THEN history
                            ELSE [history EXCEPT !.writer =
                                    <<"delete", get_entity_config(unique_id, entities)>>])
    /\ UNCHANGED <<pc, tasks, lock, entryVars, lightVars>>

\* -------------------------------------------------------------------- scan
\* The for loop of async_create_or_update_device: the index of the first
\* device with the address's (segment_id, address_id, is_group), 0 when the
\* loop ends without a break.
\* find_device with the address id compared to the wrong getter.
RECURSIVE find_device_wrong_getter(_, _, _)
find_device_wrong_getter(devs, a, i) ==
    IF i > Len(devs) THEN 0
    ELSE IF /\ devs[i].segment_id = get_seg_id(a)
            /\ devs[i].address_id = get_seg_id(a)
            /\ devs[i].is_group = is_group(a)
         THEN i
    ELSE find_device_wrong_getter(devs, a, i + 1)

RECURSIVE find_device(_, _, _)
find_device(devs, a, i) ==
    IF i > Len(devs) THEN 0
    ELSE IF /\ devs[i].segment_id = get_seg_id(a)
            /\ devs[i].address_id = get_id(a)
            /\ devs[i].is_group = is_group(a)
         THEN i
    ELSE find_device(devs, a, i + 1)

\* dict.update(other)
dict_update(d, other) ==
    [k \in DOMAIN d \cup DOMAIN other |->
        IF k \in DOMAIN other THEN other[k] ELSE d[k]]

\* create_or_update_device with the new device assigned as the list instead
\* of appended to it.
create_or_update_device_assigning(devs, a, device_name) ==
    LET i == find_device(devs, a, 1)
        device == [unique_id |-> generate_unique_id(HOST, a),
                   segment_id |-> get_seg_id(a),
                   address_id |-> get_id(a),
                   is_group |-> is_group(a)]
        list == IF i = 0 THEN <<device>> ELSE devs
        j == IF i = 0 THEN Len(list) ELSE i
    IN  [list EXCEPT ![j] = dict_update(@,
            [name |-> device_name,
             hardware_serial |-> hardware_serial(a),
             software_serial |-> software_serial(a),
             hardware_type |-> hw_type(a)])]

\* create_or_update_device with the two serials written to each other's key.
create_or_update_device_swapping(devs, a, device_name) ==
    LET i == find_device(devs, a, 1)
        device == [unique_id |-> generate_unique_id(HOST, a),
                   segment_id |-> get_seg_id(a),
                   address_id |-> get_id(a),
                   is_group |-> is_group(a)]
        list == IF i = 0 THEN Append(devs, device) ELSE devs
        j == IF i = 0 THEN Len(list) ELSE i
    IN  [list EXCEPT ![j] = dict_update(@,
            [name |-> device_name,
             hardware_serial |-> software_serial(a),
             software_serial |-> hardware_serial(a),
             hardware_type |-> hw_type(a)])]

\* create_or_update_device with the unique_id made from the new record's
\* place in the list instead of its address id.
create_or_update_device_positional(devs, a, device_name) ==
    LET i == find_device(devs, a, 1)
        device == [unique_id |-> generate_unique_id(HOST,
                                    <<get_seg_id(a), Len(devs), is_group(a)>>),
                   segment_id |-> get_seg_id(a),
                   address_id |-> get_id(a),
                   is_group |-> is_group(a)]
        list == IF i = 0 THEN Append(devs, device) ELSE devs
        j == IF i = 0 THEN Len(list) ELSE i
    IN  [list EXCEPT ![j] = dict_update(@,
            [name |-> device_name,
             hardware_serial |-> hardware_serial(a),
             software_serial |-> software_serial(a),
             hardware_type |-> hw_type(a)])]

\* The body of "async with lock" in async_create_or_update_device: find the
\* device or append a new one, then update its name and serials.
create_or_update_device(devs, a, device_name) ==
    LET i == find_device(devs, a, 1)
        device == [unique_id |-> generate_unique_id(HOST, a),
                   segment_id |-> get_seg_id(a),
                   address_id |-> get_id(a),
                   is_group |-> is_group(a)]
        list == IF i = 0 THEN Append(devs, device) ELSE devs
        j == IF i = 0 THEN Len(list) ELSE i
    IN  [list EXCEPT ![j] = dict_update(@,
            [name |-> device_name,
             hardware_serial |-> hardware_serial(a),
             software_serial |-> software_serial(a),
             hardware_type |-> hw_type(a)])]

Running(s) == {a \in Addrs : tasks[s][a] = "query"}
\* A request slot is free when its handler has ended and no task it started
\* is still running.
Free(s) == pc[s] = "idle" /\ Running(s) = {}

\* reconcile_tasks without the filter on is_group().
reconcile_tasks_unfiltered(conns) ==
    [a \in Addrs |-> IF a \notin conns THEN "none" ELSE "query"]

\* The list comprehension handed to gather: a task for every address
\* connection that is not a group.
reconcile_tasks(conns) ==
    [a \in Addrs |->
        IF a \notin conns THEN "none"
        ELSE IF is_group(a) THEN "skipped" ELSE "query"]

\* websocket_scan_devices up to the gather: scan_modules() has returned with
\* the address connections `conns`; one reconcile task is created for every
\* connection that is not a group.  With no task at all gather returns at
\* once and the handler goes on to sort and schedule the save.
scan_modules(s, conns) ==
    /\ Free(s)
    /\ \A t \in 1..s - 1 : ~Free(t)
    /\ tasks' = [tasks EXCEPT ![s] = reconcile_tasks(conns)]
    /\ IF \E a \in Addrs : reconcile_tasks(conns)[a] = "query"
       THEN /\ pc' = [pc EXCEPT ![s] = "gather"]
            /\ UNCHANGED <<devices, entities, dirty>>
       ELSE LET sorted == sort_lcn_config_entry(devices, entities)
            IN  /\ devices' = sorted.devices
                /\ entities' = sorted.entities
                /\ dirty' = TRUE
                /\ pc' = [pc EXCEPT ![s] = "register"]
    /\ UNCHANGED <<registry, lock, resp, history, entryVars, lightVars>>

\* async_create_or_update_device from the return of request_name() to its
\* end: the lock is taken (it is free: nothing suspends while holding it),
\* the device list is written, the lock is released.  The task of a sweep
\* whose handler has already failed still writes; its result is dropped.
reconcile(s, a, device_name) ==
    /\ tasks[s][a] = "query"
    /\ ~lock[s]
    /\ devices' = create_or_update_device(devices, a, device_name)
    /\ tasks' = [tasks EXCEPT ![s][a] =
                    IF pc[s] # "gather" THEN "none"
                    ELSE IF find_device(devices, a, 1) = 0 THEN "created"
                    ELSE "updated"]
    /\ lock' = [lock EXCEPT ![s] = FALSE]
    /\ Recorded([history EXCEPT
            !.writer = <<"scan", s>>,
            !.minted[a] = IF find_device(devices, a, 1) = 0 /\ Len(@) < MaxMints
                          THEN Append(@, devices'[Len(devices')].unique_id)
                          ELSE @])
    /\ UNCHANGED <<entities, registry, pc, dirty, resp, entryVars, lightVars>>

\* await serial_known / request_name() raises TimeoutError.  gather hands the
\* first exception of a task to the handler, which ends with it: no sort, no
\* save, no result.  The other tasks are not cancelled.
query_fails(s, a) ==
    /\ tasks[s][a] = "query"
    /\ IF pc[s] = "gather"
       THEN /\ pc' = [pc EXCEPT ![s] = "idle"]
            /\ tasks' = [tasks EXCEPT ![s] = [b \in Addrs |->
                            IF b # a /\ tasks[s][b] = "query" THEN "query"
                            ELSE "none"]]
            /\ resp' = Reply("lcn/device/scan", "error")
       ELSE /\ tasks' = [tasks EXCEPT ![s][a] = "none"]
            /\ UNCHANGED <<pc, resp>>
    /\ UNCHANGED <<devices, entities, registry, lock, dirty, history,
                   entryVars, lightVars>>

\* websocket_scan_devices after the gather: every task has returned; sort,
\* schedule the save, start async_register_lcn_address_devices.
gather_done(s) ==
    /\ pc[s] = "gather"
    /\ Running(s) = {}
    /\ LET sorted == sort_lcn_config_entry(devices, entities)
       IN  /\ devices' = sorted.devices
           /\ entities' = sorted.entities
    /\ dirty' = TRUE
    /\ pc' = [pc EXCEPT ![s] = "register"]
    /\ UNCHANGED <<registry, tasks, lock, resp, history, entryVars, lightVars>>

\* helpers.async_register_lcn_address_devices: every device of the config
\* entry gets its entry (DOMAIN, unique_id) in the device registry.
async_register_lcn_address_devices(reg, devs) == reg \cup DeviceUids(devs)

\* The end of websocket_scan_devices: the devices are registered and the
\* device list is sent as the result.
send_scan_result(s) ==
    /\ pc[s] = "register"
    /\ registry' = async_register_lcn_address_devices(registry, devices)
    /\ pc' = [pc EXCEPT ![s] = "idle"]
    /\ tasks' = [tasks EXCEPT ![s] = [a \in Addrs |-> "none"]]
    /\ resp' = Reply("lcn/device/scan", "ok")
    /\ UNCHANGED <<devices, entities, lock, dirty, history, entryVars, lightVars>>

\* ----------------------------------------------------------- specification
\* One scan request at a time, with delete requests arriving at any time.
Next ==
    \/ \E conns \in SUBSET Addrs : scan_modules(1, conns)
    \/ \E a \in Addrs, n \in Names : reconcile(1, a, n)
    \/ \E a \in Addrs : query_fails(1, a)
    \/ gather_done(1)
    \/ send_scan_result(1)
    \/ \E u \in DeviceIds : websocket_delete_device(u)
    \/ \E u \in EntityIds : websocket_delete_entity(u)

Spec == Init /\ [][Next]_vars

\* Up to MaxSweeps scan requests in flight at the same time.
NextScans ==
    \/ \E s \in Sweeps, conns \in SUBSET Addrs : scan_modules(s, conns)
    \/ \E s \in Sweeps, a \in Addrs, n \in Names : reconcile(s, a, n)
    \/ \E s \in Sweeps, a \in Addrs : query_fails(s, a)
    \/ \E s \in Sweeps : gather_done(s)
    \/ \E s \in Sweeps : send_scan_result(s)

SpecScans == InitDevicesOnly /\ [][NextScans]_vars

\* One scan request at a time and delete_device requests at any time, on a
\* config entry without entities, with the history of the writes recorded.
NextTracked ==
    \/ \E conns \in SUBSET Addrs : scan_modules(1, conns)
    \/ \E a \in Addrs, n \in Names : reconcile(1, a, n)
    \/ \E a \in Addrs : query_fails(1, a)
    \/ gather_done(1)
    \/ send_scan_result(1)
    \/ \E u \in DeviceIds : websocket_delete_device(u)

SpecTracked == InitTracked /\ [][NextTracked]_vars

\* Delete requests only, on any config entry, with the history recorded.
InitDeletes ==
    /\ StoreInit
    /\ history = Tracked
    /\ EntriesIdle
    /\ LightsIdle

NextDeletes ==
    \/ \E u \in DeviceIds : websocket_delete_device(u)
    \/ \E u \in EntityIds : websocket_delete_entity(u)

SpecDeletes == InitDeletes /\ [][NextDeletes]_vars

\* ---------------------------------------------------------- config entries
\* The hosts that may have a config entry, and each entry's entry_id.
Hosts == {HOST, "pchk2"}
EntryId(host) == <<"entry_id", host>>

\* Every sequence that lists each element of a finite set once.
Arrangements(S) == {s \in [1..Cardinality(S) -> S] : Range(s) = S}

\* What the config entry of a host may hold: module devices in the order
\* the import or the last appends left them, and entities of its first
\* device.
EntryDevice(host, a) ==
    [StoredDevice(a) EXCEPT !.unique_id = generate_unique_id(host, a)]
EntryData(host) ==
    UNION {
        {[devices |-> devs,
          entities |-> SortByKey(SetToSeq(
              {EntityConfig(k, devs[1].unique_id) : k \in K}))] :
            K \in IF devs = <<>> THEN {{}} ELSE SUBSET (1..MaxEntities)} :
        devs \in UNION {Arrangements({EntryDevice(host, a) : a \in P}) :
                            P \in SUBSET ModuleAddrs}}
ConfigEntry(host, data) ==
    [entry_id |-> EntryId(host), host |-> host, state |-> "not_loaded",
     devices |-> data.devices, entities |-> data.entities]

\* The entries of any of the hosts, in any order, none set up yet; no
\* scan or delete request is looked at.
InitEntries ==
    /\ \E hs \in UNION {Arrangements(H) : H \in SUBSET Hosts} :
        \E data \in [Hosts -> UNION {EntryData(h) : h \in Hosts}] :
            /\ \A h \in Hosts : data[h] \in EntryData(h)
            /\ config_entries =
                    [i \in 1..Len(hs) |-> ConfigEntry(hs[i], data[hs[i]])]
    /\ hass_data = {}
    /\ devices = <<>> /\ entities = <<>> /\ registry = {}
    /\ pc = [s \in Sweeps |-> "idle"]
    /\ tasks = [s \in Sweeps |-> [a \in Addrs |-> "none"]]
    /\ lock = [s \in Sweeps |-> FALSE]
    /\ dirty = FALSE
    /\ resp = [type |-> "none", result |-> "none"]
    /\ history = Tracked
    /\ LightsIdle

\* connection.send_result(msg[ID], result) of a read handler.
Result(type, payload) == [type |-> type, result |-> "ok", payload |-> payload]

\* "for config_entry in ...async_entries(DOMAIN): if ... == msg[ATTR_HOST]:
\* break": the index of the entry the name config_entry is bound to after
\* the loop, 0 when the loop never bound it.  The loop has no else.
RECURSIVE loop_config_entry(_, _, _)
loop_config_entry(entries, host, i) ==
    IF i > Len(entries) THEN Len(entries)
    ELSE IF entries[i].host = host THEN i
    ELSE loop_config_entry(entries, host, i + 1)

\* websocket_get_device_configs: sort the entry, send its device list.  With
\* no entry at all the name config_entry is unbound and the handler ends
\* with an exception.
websocket_get_device_configs(host) ==
    /\ LET i == loop_config_entry(config_entries, host, 1)
       IN  IF i = 0
           THEN /\ resp' = Reply("lcn/devices", "error")
                /\ UNCHANGED config_entries
           ELSE LET sorted == sort_lcn_config_entry(config_entries[i].devices,
                                                    config_entries[i].entities)
                IN  /\ config_entries' = [config_entries EXCEPT
                            ![i].devices = sorted.devices,
                            ![i].entities = sorted.entities]
                    /\ resp' = Result("lcn/devices", sorted.devices)
    /\ UNCHANGED <<storeVars, history, hass_data, lightVars>>

\* The list comprehension of websocket_get_entity_configs.
entity_configs(ents, unique_device_id) ==
    SelectSeq(ents, LAMBDA e : e.unique_device_id = unique_device_id)

\* websocket_get_entity_configs: sort the entry, send the entities of the
\* device.
websocket_get_entity_configs(host, unique_device_id) ==
    /\ LET i == loop_config_entry(config_entries, host, 1)
       IN  IF i = 0
           THEN /\ resp' = Reply("lcn/entities", "error")
                /\ UNCHANGED config_entries
           ELSE LET sorted == sort_lcn_config_entry(config_entries[i].devices,
                                                    config_entries[i].entities)
                IN  /\ config_entries' = [config_entries EXCEPT
                            ![i].devices = sorted.devices,
                            ![i].entities = sorted.entities]
                    /\ resp' = Result("lcn/entities",
                                entity_configs(sorted.entities, unique_device_id))
    /\ UNCHANGED <<storeVars, history, hass_data, lightVars>>

\* How PchkConnectionManager.async_connect may end during the setup.
ConnectErrors == {"PchkAuthenticationError", "PchkLicenseError", "TimeoutError"}
ConnectOutcomes == {"connected"} \cup ConnectErrors

\* The state a setup leaves the entry in.
\* setup_state where a timeout is taken for a success.
setup_state_ignoring_timeout(outcome) ==
    IF outcome \in {"connected", "TimeoutError"} THEN "loaded" ELSE "setup_error"

setup_state(outcome) ==
    IF outcome = "connected" THEN "loaded" ELSE "setup_error"

\* hass.config_entries.async_setup(entry_id) of an entry that is not loaded:
\* async_setup_entry connects; on success the connection is kept in
\* hass.data[DOMAIN][entry_id], on an error the setup fails.
async_setup_entry(i, outcome) ==
    /\ i \in 1..Len(config_entries)
    /\ config_entries[i].state = "not_loaded"
    /\ config_entries' = [config_entries EXCEPT ![i].state = setup_state(outcome)]
    /\ hass_data' = IF setup_state(outcome) = "loaded"
                    THEN hass_data \cup {config_entries[i].entry_id}
                    ELSE hass_data
    /\ UNCHANGED <<storeVars, resp, history, lightVars>>

\* What async_unload_entry leaves in hass.data[DOMAIN].
\* unloaded_data that keeps the entry's data.
unloaded_data_kept(data, entry_id) == data

unloaded_data(data, entry_id) == data \ {entry_id}

\* hass.config_entries.async_unload(entry_id) of a loaded entry.
async_unload_entry(i) ==
    /\ i \in 1..Len(config_entries)
    /\ config_entries[i].state = "loaded"
    /\ config_entries' = [config_entries EXCEPT ![i].state = "not_loaded"]
    /\ hass_data' = unloaded_data(hass_data, config_entries[i].entry_id)
    /\ Recorded([history EXCEPT
            !.unloaded = @ \cup {config_entries[i].entry_id}])
    /\ UNCHANGED <<storeVars, resp, lightVars>>

EntryDeviceIds == {generate_unique_id(h, a) : h \in Hosts, a \in ModuleAddrs}

NextEntries ==
    \/ \E h \in Hosts : websocket_get_device_configs(h)
    \/ \E h \in Hosts, u \in EntryDeviceIds : websocket_get_entity_configs(h, u)
    \/ \E i \in 1..Cardinality(Hosts), o \in ConnectOutcomes : async_setup_entry(i, o)
    \/ \E i \in 1..Cardinality(Hosts) : async_unload_entry(i)

SpecEntries == InitEntries /\ [][NextEntries]_vars

\* ------------------------------------------------------------------ lights
\* pypck.lcn_defs.time_to_ramp_value(...): a ramp value, 0 for no ramp.
Ramps == 0..MaxRamp
\* LcnOutputLight.output.value
OutputIds == 0..MaxOutput
\* The relay state vector has 8 entries; RelayPort values are its indices.
NumRelays == 8
RelayPorts == 0..NumRelays - 1

\* An optional keyword argument: <<>> when absent, <<v>> when given.
Optional(S) == {<<>>} \cup {<<v>> : v \in S}
\* kwargs[ATTR_BRIGHTNESS], 0..255, and the percents a status may report.
Brightnesses == {1, 128, 255}
Percents == {0, 1, 50, 100}

\* The input objects a light may receive.
ModStatusOutput(output_id, percent) ==
    [class |-> "ModStatusOutput", output_id |-> output_id, percent |-> percent]
ModStatusRelays(states) == [class |-> "ModStatusRelays", states |-> states]
\* The relay states a status may report: one port in one state, the other
\* seven in the same or in the other state.
RelayStates ==
    {[port \in RelayPorts |-> IF port = k THEN b ELSE c] :
        k \in RelayPorts, b \in BOOLEAN, c \in BOOLEAN}
InputObjects ==
    {ModStatusOutput(o, p) : o \in OutputIds, p \in Percents}
    \cup {ModStatusRelays(st) : st \in RelayStates}
    \cup {[class |-> "ModStatusVar"]}

\* int(kwargs[ATTR_BRIGHTNESS] / 255.0 * 100) and
\* int(input_obj.get_percent() / 100.0 * 255): for these integers the float
\* computation gives the integer quotient.
brightness_to_percent(brightness) == (brightness * 100) \div 255
percent_to_brightness(percent) == (percent * 255) \div 100

\* async_write_ha_state(): the state of the light as written.
written_state(light) ==
    IF "brightness" \in DOMAIN light
    THEN [is_on |-> light.is_on, brightness |-> light.brightness]
    ELSE [is_on |-> light.is_on]

\* The ramp value a call uses: of kwargs[ATTR_TRANSITION] when given, else
\* the configured one.
call_transition(light, kw_transition) ==
    IF kw_transition # <<>> THEN kw_transition[1] ELSE light.transition

\* LcnOutputLight.async_turn_on
LcnOutputLight_async_turn_on(kw_brightness, kw_transition) ==
    LET light == [LcnOutputLight EXCEPT !.is_on = TRUE, !.is_dimming_to_zero = FALSE]
        percent == IF kw_brightness # <<>>
                   THEN brightness_to_percent(kw_brightness[1]) ELSE 100
        transition == call_transition(LcnOutputLight, kw_transition)
    IN  /\ LcnOutputLight' = light
        /\ last_call' = [method |-> "LcnOutputLight.async_turn_on",
                         sent |-> <<[command |-> "dim_output",
                                     output_id |-> light.output,
                                     percent |-> percent,
                                     transition |-> transition]>>,
                         written |-> <<written_state(light)>>]
        /\ Recorded([history EXCEPT !.ramped_off = FALSE])
        /\ UNCHANGED <<storeVars, resp, entryVars, LcnRelayLight>>

\* LcnOutputLight.async_turn_off
LcnOutputLight_async_turn_off(kw_transition) ==
    LET transition == call_transition(LcnOutputLight, kw_transition)
        light == [LcnOutputLight EXCEPT
                    !.is_on = FALSE, !.is_dimming_to_zero = (transition # 0)]
    IN  /\ LcnOutputLight' = light
        /\ last_call' = [method |-> "LcnOutputLight.async_turn_off",
                         sent |-> <<[command |-> "dim_output",
                                     output_id |-> light.output,
                                     percent |-> 0,
                                     transition |-> transition]>>,
                         written |-> <<written_state(light)>>]
        /\ Recorded([history EXCEPT !.ramped_off = @ \/ transition # 0])
        /\ UNCHANGED <<storeVars, resp, entryVars, LcnRelayLight>>

\* The guard of LcnOutputLight.input_received: a ModStatusOutput of the
\* light's own output.
\* own_output_status without the comparison of the output ids.
own_output_status_any_output(light, input_obj) ==
    input_obj.class = "ModStatusOutput"

own_output_status(light, input_obj) ==
    /\ input_obj.class = "ModStatusOutput"
    /\ input_obj.output_id = light.output

\* The fields LcnOutputLight.input_received leaves after a status of the
\* light's own output.
\* output_status_received that sets is_on also while dimming to zero.
output_status_received_while_dimming(light, input_obj) ==
    LET brightness == percent_to_brightness(input_obj.percent)
    IN  [light EXCEPT
            !.brightness = brightness,
            !.is_dimming_to_zero = IF brightness = 0 THEN FALSE ELSE @,
            !.is_on = brightness > 0]

output_status_received(light, input_obj) ==
    LET brightness == percent_to_brightness(input_obj.percent)
        is_dimming_to_zero == IF brightness = 0 THEN FALSE
                              ELSE light.is_dimming_to_zero
    IN  [light EXCEPT
            !.brightness = brightness,
            !.is_dimming_to_zero = is_dimming_to_zero,
            !.is_on = IF ~is_dimming_to_zero THEN brightness > 0 ELSE @]

\* LcnOutputLight.input_received
LcnOutputLight_input_received(input_obj) ==
    /\ IF ~own_output_status(LcnOutputLight, input_obj)
       THEN /\ last_call' = [method |-> "LcnOutputLight.input_received",
                             sent |-> <<>>, written |-> <<>>]
            /\ UNCHANGED <<LcnOutputLight, history>>
       ELSE LET light == output_status_received(LcnOutputLight, input_obj)
            IN  /\ LcnOutputLight' = light
                /\ last_call' = [method |-> "LcnOutputLight.input_received",
                                 sent |-> <<>>,
                                 written |-> <<written_state(light)>>]
                /\ Recorded([history EXCEPT !.ramped_off =
                                IF light.brightness = 0 THEN FALSE ELSE @])
    /\ UNCHANGED <<storeVars, resp, entryVars, LcnRelayLight>>

\* relay_states that sets the modifier at every port.
relay_states_every_port(output, modifier) ==
    [port \in RelayPorts |-> modifier]

\* states = [NOCHANGE] * 8; states[self.output.value] = modifier
relay_states(output, modifier) ==
    [port \in RelayPorts |-> IF port = output THEN modifier ELSE "NOCHANGE"]

\* LcnRelayLight.async_turn_on
LcnRelayLight_async_turn_on ==
    LET light == [LcnRelayLight EXCEPT !.is_on = TRUE]
    IN  /\ LcnRelayLight' = light
        /\ last_call' = [method |-> "LcnRelayLight.async_turn_on",
                         sent |-> <<[command |-> "control_relays",
                                     states |-> relay_states(light.output, "ON")]>>,
                         written |-> <<written_state(light)>>]
        /\ UNCHANGED <<storeVars, resp, history, entryVars, LcnOutputLight>>

\* LcnRelayLight.async_turn_off
LcnRelayLight_async_turn_off ==
    LET light == [LcnRelayLight EXCEPT !.is_on = FALSE]
    IN  /\ LcnRelayLight' = light
        /\ last_call' = [method |-> "LcnRelayLight.async_turn_off",
                         sent |-> <<[command |-> "control_relays",
                                     states |-> relay_states(light.output, "OFF")]>>,
                         written |-> <<written_state(light)>>]
        /\ UNCHANGED <<storeVars, resp, history, entryVars, LcnOutputLight>>

\* LcnRelayLight.input_received
LcnRelayLight_input_received(input_obj) ==
    /\ IF input_obj.class # "ModStatusRelays"
       THEN /\ last_call' = [method |-> "LcnRelayLight.input_received",
                             sent |-> <<>>, written |-> <<>>]
            /\ UNCHANGED LcnRelayLight
       ELSE LET light == [LcnRelayLight EXCEPT
                            !.is_on = input_obj.states[LcnRelayLight.output]]
            IN  /\ LcnRelayLight' = light
                /\ last_call' = [method |-> "LcnRelayLight.input_received",
                                 sent |-> <<>>,
                                 written |-> <<written_state(light)>>]
    /\ UNCHANGED <<storeVars, resp, history, entryVars, LcnOutputLight>>

\* One output light and one relay light as constructed, on any port and
\* with any configured transition; no websocket request is looked at.
InitLights ==
    /\ \E o \in OutputIds, t \in Ramps : LcnOutputLight = OutputLightInit(o, t)
    /\ \E o \in RelayPorts : LcnRelayLight = RelayLightInit(o)
    /\ last_call = NoCall
    /\ history = Tracked
    /\ EntriesIdle
    /\ devices = <<>> /\ entities = <<>> /\ registry = {}
    /\ pc = [s \in Sweeps |-> "idle"]
    /\ tasks = [s \in Sweeps |-> [a \in Addrs |-> "none"]]
    /\ lock = [s \in Sweeps |-> FALSE]
    /\ dirty = FALSE
    /\ resp = [type |-> "none", result |-> "none"]

NextLights ==
    \/ \E b \in Optional(Brightnesses), t \in Optional(Ramps) :
            LcnOutputLight_async_turn_on(b, t)
    \/ \E t \in Optional(Ramps) : LcnOutputLight_async_turn_off(t)
    \/ \E input_obj \in InputObjects : LcnOutputLight_input_received(input_obj)
    \/ LcnRelayLight_async_turn_on
    \/ LcnRelayLight_async_turn_off
    \/ \E input_obj \in InputObjects : LcnRelayLight_input_received(input_obj)

SpecLights == InitLights /\ [][NextLights]_vars

\* ------------------------------------------------------------------ claims
\* The entity records that reference a device.
Dependents(ents, unique_device_id) ==
    {e \in Range(ents) : e.unique_device_id = unique_device_id}

\* C1: referential integrity.  In every reachable state every entity record
\* references a device record the device list holds.
C1_ReferentialIntegrity ==
    \A e \in Range(entities) : Found(devices, e.unique_device_id)

\* C2: cascade postcondition.  A delete_device(D) that returns leaves no
\* entity record referencing D and no device record of D, and keeps every
\* other record.  Stated for the stores whose registry holds D and every
\* entity of D, where the registry lookups of C3 and C4 all succeed.
C2_CascadePostcondition ==
    [][\A u \in DeviceIds :
          ( /\ websocket_delete_device(u)
            /\ Found(devices, u)
            /\ u \in registry
            /\ \A e \in Dependents(entities, u) : e.unique_id \in registry )
          => ( /\ Dependents(entities', u) = {}
               /\ ~Found(devices', u)
               /\ Range(devices') = Range(devices) \ {get_device_config(u, devices)}
               /\ Range(entities') = Range(entities) \ Dependents(entities, u) )
      ]_vars

\* C3: delete_device of a stored device the registry has no entry for removes
\* nothing from the registry for it and still removes the device record.
C3_DeleteUnregisteredDevice ==
    [][\A u \in DeviceIds :
          ( /\ websocket_delete_device(u)
            /\ Found(devices, u)
            /\ u \notin registry )
          => ( /\ ~Found(devices', u)
               /\ u \notin registry' )
      ]_vars

\* C4: delete_entity of a stored entity removes its registry entry when
\* there is one and, registry entry or not, removes the entity record.
C4_DeleteEntityRemovesRecord ==
    [][\A u \in EntityIds :
          ( /\ websocket_delete_entity(u)
            /\ Found(entities, u) )
          => ( /\ ~Found(entities', u)
               /\ u \notin registry' )
      ]_vars

\* C5: a delete of an identifier the store does not hold is answered with an
\* error and changes neither list nor the registry; and after a
\* delete_device(D) that was answered "ok" the store no longer holds D, so
\* that a second delete_device(D) fails with NotFoundError.
C5_DeleteNotFound ==
    [][ /\ \A u \in DeviceIds :
            (websocket_delete_device(u) /\ ~Found(devices, u))
            => ( /\ resp'.result = "error"
                 /\ UNCHANGED <<devices, entities, registry>> )
        /\ \A u \in EntityIds :
            (websocket_delete_entity(u) /\ ~Found(entities, u))
            => ( /\ resp'.result = "error"
                 /\ UNCHANGED <<devices, entities, registry>> )
        /\ \A u \in DeviceIds :
            (websocket_delete_device(u) /\ Found(devices, u))
            => ~Found(devices', u)
      ]_vars

\* The device records with a given identity key.
WithKey(devs, a) ==
    {i \in 1..Len(devs) : /\ devs[i].segment_id = get_seg_id(a)
                          /\ devs[i].address_id = get_id(a)
                          /\ devs[i].is_group = is_group(a)}

\* C6: no duplicate devices.  Whatever the interleaving of the reconcile
\* tasks of simultaneous sweeps, each with a lock of its own, the device list
\* never holds two records with the same (segment_id, address_id, is_group).
C6_NoDuplicateDevices ==
    \A a \in Addrs : Cardinality(WithKey(devices, a)) <= 1

\* Two sweeps are in flight, both had a task for the same address, one task
\* created its record and the other found it: one record.
C6_Witness ==
    \E a \in ModuleAddrs :
        /\ pc[1] # "idle" /\ pc[2] # "idle"
        /\ {tasks[1][a], tasks[2][a]} = {"created", "updated"}
        /\ Cardinality(WithKey(devices, a)) = 1

\* C7: partial success.  A query that fails while the handler awaits the
\* gather does not end the request: the sweep goes on with the other
\* addresses and no error is sent.
C7_PartialSuccess ==
    [][\A s \in Sweeps, a \in Addrs :
          (query_fails(s, a) /\ pc[s] = "gather")
          => (pc'[s] = "gather" /\ resp' = resp)
      ]_vars

GroupRecords(devs) == {d \in Range(devs) : d.is_group}

C9_AdditiveOnly ==
    [][(pc' # pc \/ tasks' # tasks)
          => /\ DeviceUids(devices) \subseteq DeviceUids(devices')
             /\ Range(entities) \subseteq Range(entities')
      ]_vars

\* A sweep has reconciled an address and is about to send its result, while
\* the store still holds a device the sweep did not discover, and an entity.
C9_Witness ==
    \E a \in ModuleAddrs, b \in Addrs :
        /\ pc[1] = "register"
        /\ tasks[1][a] \in {"created", "updated"}
        /\ tasks[1][b] = "none"
        /\ find_device(devices, b, 1) # 0
        /\ entities # <<>>

\* C10: update in place.  A reconcile task whose address matches a stored
\* device sets that record's name and serials to the queried values, keeps
\* its other keys, appends nothing and changes no other record.
C10_UpdateInPlace ==
    [][\A s \in Sweeps, a \in Addrs, n \in Names :
          (reconcile(s, a, n) /\ find_device(devices, a, 1) # 0)
          => LET i == find_device(devices, a, 1)
             IN  /\ Len(devices') = Len(devices)
                 /\ devices'[i] = [devices[i] EXCEPT
                        !.name = n,
                        !.hardware_serial = hardware_serial(a),
                        !.software_serial = software_serial(a),
                        !.hardware_type = hw_type(a)]
                 /\ \A j \in 1..Len(devices) : j # i => devices'[j] = devices[j]
      ]_vars

\* A task has updated a stored record in a list that holds another device.
C10_Witness ==
    \E a \in ModuleAddrs :
        /\ tasks[1][a] = "updated"
        /\ Len(devices) >= 2
        /\ \E i \in WithKey(devices, a) :
              /\ devices[i].name \in Names
              /\ devices[i].hardware_serial = hardware_serial(a)

\* C11: deterministic identity.  Every unique_id given to a record created
\* for an address is generate_unique_id of the host and that address's
\* (segment_id, address_id, is_group), so that it is the same at every
\* creation, also after a delete_device in between; the unique_ids given to
\* different addresses differ, and no two stored records share a unique_id.
C11_DeterministicIdentity ==
    /\ \A a \in Addrs : \A i \in 1..Len(history.minted[a]) :
            history.minted[a][i] = generate_unique_id(HOST, a)
    /\ \A a, b \in Addrs :
            a # b => Range(history.minted[a]) \cap Range(history.minted[b]) = {}
    /\ \A i, j \in 1..Len(devices) :
            i # j => devices[i].unique_id # devices[j].unique_id

\* A module's record was created by a scan, deleted, and created again by a
\* later scan, with the same unique_id; another address has got its own.
C11_Witness ==
    \E a \in ModuleAddrs, b \in Addrs :
        /\ a # b
        /\ Len(history.minted[a]) = 2
        /\ history.minted[a][1] = history.minted[a][2]
        /\ history.minted[b] # <<>>
        /\ find_device(devices, a, 1) # 0
        /\ find_device(devices, b, 1) # 0

\* C12: sorted and dirty after mutation.  When a scan_devices, delete_device
\* or delete_entity request sends its result, the device list is sorted by
\* (is_group, segment_id, address_id), the entity list by (platform,
\* resource), and async_update_entry has been called.
C12_SortedAndDirty ==
    [][ /\ \A s \in Sweeps :
            send_scan_result(s)
            => (IsSorted(devices') /\ IsSorted(entities') /\ dirty')
        /\ \A u \in DeviceIds :
            (websocket_delete_device(u) /\ Found(devices, u))
            => (IsSorted(devices') /\ IsSorted(entities') /\ dirty')
        /\ \A u \in EntityIds :
            (websocket_delete_entity(u) /\ Found(entities, u))
            => (IsSorted(devices') /\ IsSorted(entities') /\ dirty')
      ]_vars

\* C13: setup failure.  A setup whose connection attempt ends with an
\* authentication error, a license error or a timeout leaves the entry in
\* state SETUP_ERROR with no data in hass.data[DOMAIN], and an entry in state
\* SETUP_ERROR stays there: no step sets it up again.
C13_SetupFailure ==
    [][ /\ \A i \in 1..Len(config_entries), o \in ConnectErrors :
            async_setup_entry(i, o)
            => ( /\ config_entries'[i].state = "setup_error"
                 /\ config_entries[i].entry_id \notin hass_data' )
        /\ \A i \in 1..Len(config_entries) :
            config_entries[i].state = "setup_error"
            => config_entries'[i].state = "setup_error"
      ]_vars

\* One entry's setup has failed while another entry is loaded.
C13_Witness ==
    \E i, j \in 1..Len(config_entries) :
        /\ config_entries[i].state = "setup_error"
        /\ config_entries[i].entry_id \notin hass_data
        /\ config_entries[j].state = "loaded"

\* C14: setup/unload lifecycle.  A successful setup leaves the entry LOADED
\* with its connection data in hass.data[DOMAIN]; an unload leaves it
\* NOT_LOADED with no data of its entry_id; in every state the entries
\* that have data are the loaded ones.
C14_SetupUnload ==
    [][ /\ \A i \in 1..Len(config_entries) :
            async_setup_entry(i, "connected")
            => ( /\ config_entries'[i].state = "loaded"
                 /\ config_entries[i].entry_id \in hass_data' )
        /\ \A i \in 1..Len(config_entries) :
            async_unload_entry(i)
            => ( /\ config_entries'[i].state = "not_loaded"
                 /\ config_entries[i].entry_id \notin hass_data' )
        /\ \A i \in 1..Len(config_entries) :
            (config_entries'[i].state = "loaded")
            <=> (config_entries'[i].entry_id \in hass_data')
      ]_vars

\* An entry was set up and unloaded, the last one to be: hass.data[DOMAIN]
\* is empty.
C14_Witness ==
    \E i \in 1..Len(config_entries) :
        /\ config_entries[i].entry_id \in history.unloaded
        /\ config_entries[i].state = "not_loaded"
        /\ hass_data = {}

\* C15: mutator exclusion.  When a reconcile task of a sweep writes to the
\* device list and a task of the same sweep has written before it, the last
\* write to the lists was that sweep's: no delete request and no other
\* sweep has written between two per-address writes of a sweep.
C15_MutatorExclusion ==
    [][\A s \in Sweeps, a \in Addrs, n \in Names :
          ( /\ reconcile(s, a, n)
            /\ history.on
            /\ \E b \in Addrs : tasks[s][b] \in {"created", "updated"} )
          => history.writer = <<"scan", s>>
      ]_vars

\* C16: cascade ordering.  In no store that delete_device(D) goes through,
\* the one it returns with included, is D's record gone while an entity
\* record references D; and when D's record is removed, delete_entity has
\* been called for every entity record that referenced D.
C16_CascadeOrdering ==
    [][\A u \in DeviceIds :
          (websocket_delete_device(u) /\ Found(devices, u))
          => LET steps == delete_device_steps(devices, entities, registry, u)
             IN  /\ \A k \in 1..Len(steps) :
                        \/ Found(steps[k].devices, u)
                        \/ Dependents(steps[k].entities, u) = {}
                 /\ ~Found(steps[Len(steps)].devices, u)
                        => Len(steps) - 2 = Cardinality(Dependents(entities, u))
      ]_vars

\* C17: delete_entity does not cascade.  A delete_entity(E) removes no
\* entity record but E's and no registry entry but E's, adds none, and
\* keeps every device record.
C17_NoCascade ==
    [][\A u \in EntityIds :
          (websocket_delete_entity(u) /\ Found(entities, u))
          => LET r == delete_entity(entities, registry, u)
             IN  /\ Range(r.entities) \subseteq Range(entities)
                 /\ Range(entities) \ Range(r.entities)
                        \subseteq {get_entity_config(u, entities)}
                 /\ Len(r.entities) >= Len(entities) - 1
                 /\ r.registry \subseteq registry
                 /\ registry \ r.registry \subseteq {u}
                 /\ Range(entities') = Range(r.entities)
                 /\ Len(entities') = Len(r.entities)
                 /\ registry' = r.registry
                 /\ Range(devices') = Range(devices)
                 /\ Len(devices') = Len(devices)
      ]_vars

\* The last write removed an entity record; a sibling of it, an entity of
\* the same device, is still stored, and so is the device.
C17_Witness ==
    /\ resp = Reply("lcn/entity/delete", "ok")
    /\ history.writer[1] = "delete"
    /\ "unique_device_id" \in DOMAIN history.writer[2]
    /\ history.writer[2] \notin Range(entities)
    /\ \E e \in Range(entities) :
            e.unique_device_id = history.writer[2].unique_device_id
    /\ Found(devices, history.writer[2].unique_device_id)

\* The records of the config entries of the other hosts.
ForeignRecords(host) ==
    UNION {Range(config_entries[i].devices) \cup Range(config_entries[i].entities) :
            i \in {j \in 1..Len(config_entries) : config_entries[j].host # host}}

\* C18: host isolation of reads.  The result of list_devices(host) and of
\* list_entities(host, device_id) holds no record of another host's config
\* entry, and the request leaves the entries of the other hosts as they
\* are, also when no config entry has the requested host.
C18_HostIsolation ==
    [][\A h \in Hosts :
          ( \/ websocket_get_device_configs(h)
            \/ \E u \in EntryDeviceIds : websocket_get_entity_configs(h, u) )
          => ( /\ resp'.result = "ok"
                    => Range(resp'.payload) \cap ForeignRecords(h) = {}
               /\ \A i \in 1..Len(config_entries) :
                    config_entries[i].host # h
                    => config_entries'[i] = config_entries[i] )
      ]_vars

\* C19 as stated: while the light is dimming to zero it is not on, and once
\* it was turned off with a non-zero ramp it is not on again until it was
\* turned on or reported at brightness 0.
C19_RampDown ==
    /\ LcnOutputLight.is_dimming_to_zero => ~LcnOutputLight.is_on
    /\ history.ramped_off => ~LcnOutputLight.is_on

\* C19, amended: while the light is dimming to zero it is not on; a report
\* of its own output with percent > 0 that arrives while it is dimming to
\* zero updates brightness and leaves is_on False and the flag set; is_on
\* becomes True only through async_turn_on or through a report with
\* brightness > 0 that arrives while the flag is clear; and the flag is
\* cleared only by async_turn_on, by a report with brightness 0, or by an
\* async_turn_off whose ramp value is 0.
C19_RampDownWhileDimming ==
    /\ [](LcnOutputLight.is_dimming_to_zero => ~LcnOutputLight.is_on)
    /\ [][\A o \in OutputIds, p \in Percents \ {0} :
            ( /\ LcnOutputLight.is_dimming_to_zero
              /\ o = LcnOutputLight.output
              /\ LcnOutputLight_input_received(ModStatusOutput(o, p)) )
            => ( /\ LcnOutputLight'.brightness = (p * 255) \div 100
                 /\ ~LcnOutputLight'.is_on
                 /\ LcnOutputLight'.is_dimming_to_zero
                 /\ last_call'.written =
                        <<[is_on |-> FALSE, brightness |-> (p * 255) \div 100]>> )
        ]_vars
    /\ [][(~LcnOutputLight.is_on /\ LcnOutputLight'.is_on)
            => ( \/ last_call'.method = "LcnOutputLight.async_turn_on"
                 \/ /\ last_call'.method = "LcnOutputLight.input_received"
                    /\ ~LcnOutputLight.is_dimming_to_zero
                    /\ LcnOutputLight'.brightness > 0 )
        ]_vars
    /\ [][(LcnOutputLight.is_dimming_to_zero /\ ~LcnOutputLight'.is_dimming_to_zero)
            => ( \/ last_call'.method = "LcnOutputLight.async_turn_on"
                 \/ /\ last_call'.method = "LcnOutputLight.input_received"
                    /\ LcnOutputLight'.brightness = 0
                 \/ /\ last_call'.method = "LcnOutputLight.async_turn_off"
                    /\ last_call'.sent[1].transition = 0 )
        ]_vars

\* The light was turned off with a ramp and has since received a report of
\* its own output at 50 percent: it shows the reported brightness and is
\* still off and dimming to zero.
C19_Witness ==
    /\ history.ramped_off
    /\ LcnOutputLight.is_dimming_to_zero
    /\ ~LcnOutputLight.is_on
    /\ LcnOutputLight.brightness = 127
    /\ last_call.method = "LcnOutputLight.input_received"
    /\ last_call.written = <<[is_on |-> FALSE, brightness |-> 127]>>

\* C20: input filtering.  LcnOutputLight.input_received leaves the light's
\* fields unchanged and writes no state when the input is not a
\* ModStatusOutput or reports another output id than the light's own;
\* LcnRelayLight.input_received leaves is_on unchanged for an input that is
\* not a ModStatusRelays, and otherwise sets is_on to the reported state of
\* its own relay port, whatever the other ports report.
C20_InputFiltering ==
    [][\A input_obj \in InputObjects :
          /\ ( /\ LcnOutputLight_input_received(input_obj)
               /\ \/ input_obj.class # "ModStatusOutput"
                  \/ input_obj.output_id # LcnOutputLight.output )
             => ( /\ LcnOutputLight' = LcnOutputLight
                  /\ last_call'.written = <<>> )
          /\ LcnRelayLight_input_received(input_obj)
             => IF input_obj.class # "ModStatusRelays"
                THEN /\ LcnRelayLight' = LcnRelayLight
                     /\ last_call'.written = <<>>
                ELSE /\ LcnRelayLight'.is_on = input_obj.states[LcnRelayLight.output]
                     /\ LcnRelayLight'.output = LcnRelayLight.output
      ]_vars

\* The output light is on at a reported brightness, and its last call was
\* an input that it filtered out: no state was written.
C20_Witness ==
    /\ LcnOutputLight.is_on
    /\ LcnOutputLight.brightness = 127
    /\ last_call.method = "LcnOutputLight.input_received"
    /\ last_call.written = <<>>

\* The commands of a call are one control_relays whose state vector has
\* the entries 0..7, the modifier at the given port and NOCHANGE at the
\* other seven.
OneRelayCommand(sent, port, modifier) ==
    /\ Len(sent) = 1
    /\ sent[1].command = "control_relays"
    /\ DOMAIN sent[1].states = 0..7
    /\ sent[1].states[port] = modifier
    /\ \A other \in (DOMAIN sent[1].states) \ {port} :
            sent[1].states[other] = "NOCHANGE"
    /\ Cardinality((DOMAIN sent[1].states) \ {port}) = 7

\* C21: relay light commands touch one relay.  LcnRelayLight.async_turn_on
\* sends exactly one control_relays command whose 8-entry state vector has
\* ON at the light's own port and NOCHANGE at the other seven, and the
\* state it writes has is_on True; async_turn_off does the same with OFF
\* and is_on False.  The light's port stays what it was.
C21_OneRelayTouched ==
    [][/\ LcnRelayLight_async_turn_on
          => /\ OneRelayCommand(last_call'.sent, LcnRelayLight.output, "ON")
             /\ LcnRelayLight'.is_on
             /\ last_call'.written = <<[is_on |-> TRUE]>>
             /\ LcnRelayLight'.output = LcnRelayLight.output
       /\ LcnRelayLight_async_turn_off
          => /\ OneRelayCommand(last_call'.sent, LcnRelayLight.output, "OFF")
             /\ ~LcnRelayLight'.is_on
             /\ last_call'.written = <<[is_on |-> FALSE]>>
             /\ LcnRelayLight'.output = LcnRelayLight.output
      ]_vars

\* The relay light on port 5 was just turned off: its command carries OFF
\* at port 5 and the state written is off.
C21_Witness ==
    /\ LcnRelayLight.output = 5
    /\ ~LcnRelayLight.is_on
    /\ last_call.method = "LcnRelayLight.async_turn_off"
    /\ Len(last_call.sent) = 1
    /\ last_call.sent[1].states[5] = "OFF"
    /\ last_call.written = <<[is_on |-> FALSE]>>

====
